---- MODULE Spec2Model ----
(***************************************************************************)
(* Model of src/server.py: a two-player Rock-Paper-Scissors backend.       *)
(* The Match table, the HTTP handlers (each a read-modify-write in its own *)
(* storage session, run on a thread pool) and the WebSocket handler with   *)
(* the process-wide ConnectionManager.                                     *)
(***************************************************************************)
EXTENDS Integers, Sequences, FiniteSets, Bags, TLC

\* ---- bounds ------------------------------------------------------------
MaxUuid == 4          \* number of uuid4() values the run may draw
MaxEvents == 5        \* requests, connections, texts and drops of the clients
NumWorkers == 2       \* threads of the pool that run the HTTP handlers
NumConns == 2         \* WebSocket objects

Conns == 1..NumConns

\* ---- values ------------------------------------------------------------
None == "None"
Names == {"Alice"}
MoveInputs == {"rock", "scissors", "lizard"}
NoSuchGame == "nosuch"
Stranger == "stranger"

\* str(uuid.uuid4()): the n-th value drawn, distinct from every other
uuid4(n) == ToString(n)

VARIABLES
    matches,             \* the Match table: game id -> row
    nextUuid,            \* how many uuid4() values have been drawn, plus one
    req,                 \* the requests in their storage session: a bag, one per busy pool thread
    nevents,             \* client events (requests, connections, texts, drops) so far
    resp,                \* the HTTP response the step just taken sent, if any
    active_connections,  \* manager.active_connections: game id -> set of sockets
    ws,                  \* per WebSocket: its handler's position and locals
                         \* (message: <<state>> while broadcasting it)
    alive,               \* per WebSocket: the client end is still connected
    stalled,             \* the live WebSockets whose client reads nothing, buffers full
    inbox                \* per WebSocket: the message send_json delivered last, << >> if none

vars == <<matches, nextUuid, req, nevents, resp, active_connections, ws, alive,
          stalled, inbox>>

\* ---- Match row (class Match) --------------------------------------------
Match(id, p1_id, p1_name) ==
    [id |-> id, p1_id |-> p1_id, p1_name |-> p1_name, p1_ready |-> FALSE,
     p2_id |-> None, p2_name |-> None, p2_ready |-> FALSE,
     p1_move |-> None, p2_move |-> None, is_active |-> TRUE]

Columns == {"id", "p1_id", "p1_name", "p1_ready", "p2_id", "p2_name",
            "p2_ready", "p1_move", "p2_move", "is_active"}

\* game_state(game): player B is the empty sequence when p2_id is None
game_state(game) ==
    [players |->
        [A |-> [id |-> game.p1_id, name |-> game.p1_name, ready |-> game.p1_ready],
         B |-> IF game.p2_id # None
               THEN <<[id |-> game.p2_id, name |-> game.p2_name, ready |-> game.p2_ready]>>
               ELSE <<>>],
     moves |-> [A |-> game.p1_move, B |-> game.p2_move],
     is_active |-> game.is_active]

\* session.get(Match, game_id): the committed row as <<row>>, or None as << >>
SessionGet(game_id) ==
    IF game_id \in DOMAIN matches THEN <<matches[game_id]>> ELSE << >>

\* get_session's commit of a loaded row: the UPDATE sets the columns the
\* handler changed and leaves the others as they are in the table now
CommitRowWhole(loaded, game) == game

CommitRow(loaded, game) ==
    [c \in Columns |->
        IF game[c] # loaded[c] THEN game[c] ELSE matches[game.id][c]]

\* ---- HTTP responses -----------------------------------------------------
\* what the handler raises inside "with get_session()"
Raise(status, detail) == [status |-> status, body |-> detail]

\* "except Exception as e: raise HTTPException(status_code=500, ...)":
\* HTTPException is an Exception, so every raise in the try block lands here
ExceptException(raised, detail) == [status |-> 500, body |-> detail]

NoResp ==
    [op |-> None, game_id |-> None, player_id |-> None, arg |-> None,
     status |-> 0, body |-> None]

\* the response of a request that ended in the handler's except clause
Failed(op, game_id, player_id, arg, raised) ==
    [op |-> op, game_id |-> game_id, player_id |-> player_id, arg |-> arg,
     status |-> raised.status, body |-> raised.body]

\* a request whose body reached its return; the session still has to commit
InSession(op, game_id, player_id, arg, loaded, game, body) ==
    [op |-> op, game_id |-> game_id, player_id |-> player_id,
     arg |-> arg, loaded |-> loaded, game |-> game, body |-> body]

\* a thread of the pool is idle
Free == BagCardinality(req) < NumWorkers
Budget == nevents < MaxEvents

GameInputs == DOMAIN matches \cup {NoSuchGame}
PlayerInputs ==
    {matches[g].p1_id : g \in DOMAIN matches}
    \cup ({matches[g].p2_id : g \in DOMAIN matches} \ {None})
    \cup {Stranger}

\* the player ids tried on a game: on an unknown game the handlers never look at it
PlayersFor(game_id) ==
    IF game_id \in DOMAIN matches THEN PlayerInputs ELSE {Stranger}

WsUnchanged == UNCHANGED <<active_connections, ws, alive, stalled, inbox>>

\* ---- create_game --------------------------------------------------------
create_game(player_name) ==
    /\ Free
    /\ Budget
    /\ nextUuid + 1 <= MaxUuid
    /\ LET game == Match(uuid4(nextUuid), uuid4(nextUuid + 1), player_name)
       IN /\ matches' = [g \in DOMAIN matches \cup {game.id} |->
                            IF g = game.id THEN game ELSE matches[g]]
          /\ resp' = [op |-> "create", game_id |-> game.id, player_id |-> None,
                      arg |-> player_name, status |-> 200,
                      body |-> [game_id |-> game.id, player_id |-> game.p1_id,
                                role |-> "A"]]
    /\ nextUuid' = nextUuid + 2
    /\ nevents' = nevents + 1
    /\ UNCHANGED req
    /\ WsUnchanged

\* ---- join_game ----------------------------------------------------------
join_game(game_id, player_name) ==
    /\ Free
    /\ Budget
    /\ nevents' = nevents + 1
    /\ LET got == SessionGet(game_id)
           game == got[1]
           detail == "Internal server error while joining game"
       IN IF got = << >>
          THEN /\ resp' = Failed("join", game_id, None, player_name,
                            ExceptException(Raise(404, "Game not found"), detail))
               /\ UNCHANGED <<req, nextUuid>>
          ELSE IF game.p2_id # None
          THEN /\ resp' = Failed("join", game_id, None, player_name,
                            ExceptException(Raise(400, "Game is full"), detail))
               /\ UNCHANGED <<req, nextUuid>>
          ELSE /\ nextUuid <= MaxUuid
               /\ LET joined == [game EXCEPT !.p2_id = uuid4(nextUuid),
                                             !.p2_name = player_name]
                  IN req' = req (+) SetToBag({
                        InSession("join", game_id, None, player_name, game, joined,
                                  [game_id |-> joined.id, player_id |-> joined.p2_id,
                                   role |-> "B"])})
               /\ nextUuid' = nextUuid + 1
               /\ resp' = NoResp
    /\ UNCHANGED matches
    /\ WsUnchanged

\* ---- set_ready ----------------------------------------------------------
\* a set_ready that flips the caller's flag instead of setting it
MarkReadyToggle(game, player_id) ==
    IF player_id = game.p1_id
    THEN [game EXCEPT !.p1_ready = ~@]
    ELSE [game EXCEPT !.p2_ready = ~@]

\* a set_ready that starts a new round: it also clears the caller's move
MarkReadyNewRound(game, player_id) ==
    IF player_id = game.p1_id
    THEN [game EXCEPT !.p1_ready = TRUE, !.p1_move = None]
    ELSE [game EXCEPT !.p2_ready = TRUE, !.p2_move = None]

\* the if/elif that sets the caller's flag; player_id is p1_id or p2_id
MarkReady(game, player_id) ==
    IF player_id = game.p1_id
    THEN [game EXCEPT !.p1_ready = TRUE]
    ELSE [game EXCEPT !.p2_ready = TRUE]

set_ready(game_id, player_id) ==
    /\ Free
    /\ Budget
    /\ nevents' = nevents + 1
    /\ LET got == SessionGet(game_id)
           game == got[1]
           detail == "Internal server error while marking ready"
       IN IF got = << >>
          THEN /\ resp' = Failed("ready", game_id, player_id, None,
                            ExceptException(Raise(404, "Game not found"), detail))
               /\ UNCHANGED req
          ELSE IF player_id = game.p1_id \/ player_id = game.p2_id
          THEN LET g2 == MarkReady(game, player_id)
               IN /\ req' = req (+) SetToBag({
                     InSession("ready", game_id, player_id, None, game, g2, game_state(g2))})
                  /\ resp' = NoResp
          ELSE /\ resp' = Failed("ready", game_id, player_id, None,
                            ExceptException(Raise(403, "Invalid player"), detail))
               /\ UNCHANGED req
    /\ UNCHANGED <<matches, nextUuid>>
    /\ WsUnchanged

\* ---- submit_move --------------------------------------------------------
\* a submit_move that assigns the other player's column
RecordMoveSwapped(game, player_id, move) ==
    IF player_id = game.p1_id THEN [game EXCEPT !.p2_move = move]
    ELSE [game EXCEPT !.p1_move = move]

\* the if/elif that stores the caller's move; player_id is p1_id or p2_id
RecordMove(game, player_id, move) ==
    IF player_id = game.p1_id
    THEN [game EXCEPT !.p1_move = move]
    ELSE [game EXCEPT !.p2_move = move]

submit_move(game_id, player_id, move) ==
    /\ Free
    /\ Budget
    /\ nevents' = nevents + 1
    /\ LET got == SessionGet(game_id)
           game == got[1]
           detail == "Internal server error while submitting move"
       IN IF got = << >>
          THEN /\ resp' = Failed("move", game_id, player_id, move,
                            ExceptException(Raise(404, "Game not found"), detail))
               /\ UNCHANGED req
          ELSE IF player_id = game.p1_id \/ player_id = game.p2_id
          THEN LET g2 == RecordMove(game, player_id, move)
               IN /\ req' = req (+) SetToBag({
                     InSession("move", game_id, player_id, move, game, g2, game_state(g2))})
                  /\ resp' = NoResp
          ELSE /\ resp' = Failed("move", game_id, player_id, move,
                            ExceptException(Raise(403, "Invalid player"), detail))
               /\ UNCHANGED req
    /\ UNCHANGED <<matches, nextUuid>>
    /\ WsUnchanged

\* the body of get_game_state's with block: the snapshot, or the 404 it raises
StateOf(game_id) ==
    LET got == SessionGet(game_id)
    IN IF got = << >> THEN Raise(404, "Game not found")
       ELSE [status |-> 200, body |-> game_state(got[1])]

\* ---- get_game_state -----------------------------------------------------
get_game_state(game_id) ==
    /\ Free
    /\ Budget
    /\ LET r == StateOf(game_id)
           detail == "Internal server error while getting game state"
       IN resp' = IF r.status # 200
                  THEN Failed("state", game_id, None, None, ExceptException(r, detail))
                  ELSE [op |-> "state", game_id |-> game_id, player_id |-> None,
                        arg |-> None, status |-> 200, body |-> r.body]
    /\ nevents' = nevents + 1
    /\ UNCHANGED <<matches, nextUuid, req>>
    /\ WsUnchanged

\* ---- get_session: commit on leaving the with block ----------------------
SessionCommit(r) ==
    /\ BagIn(r, req)
    /\ matches' = [matches EXCEPT ![r.game.id] = CommitRow(r.loaded, r.game)]
    /\ resp' = [op |-> r.op, game_id |-> r.game_id, player_id |-> r.player_id,
                arg |-> r.arg, status |-> 200, body |-> r.body]
    /\ req' = req (-) SetToBag({r})
    /\ UNCHANGED <<nextUuid, nevents>>
    /\ WsUnchanged

\* ---- ConnectionManager --------------------------------------------------
\* connect(game_id, websocket), after the accept
Connect(active, game_id, c) ==
    [g \in DOMAIN active \cup {game_id} |->
        IF g = game_id
        THEN (IF g \in DOMAIN active THEN active[g] ELSE {}) \cup {c}
        ELSE active[g]]

\* a disconnect that uses set.remove for set.discard: KeyError when c is absent
DisconnectRemove(active, game_id, c) ==
    IF game_id \in DOMAIN active
    THEN IF c \in active[game_id]
         THEN LET rest == active[game_id] \ {c}
              IN [active |-> IF rest = {}
                             THEN [g \in DOMAIN active \ {game_id} |-> active[g]]
                             ELSE [active EXCEPT ![game_id] = rest],
                  raised |-> FALSE]
         ELSE [active |-> active, raised |-> TRUE]
    ELSE [active |-> active, raised |-> FALSE]

\* a disconnect that does nothing
DisconnectNoop(active, game_id, c) == [active |-> active, raised |-> FALSE]

\* a disconnect without "del self.active_connections[game_id]"
DisconnectKeepsEntry(active, game_id, c) ==
    IF game_id \in DOMAIN active
    THEN [active |-> [active EXCEPT ![game_id] = @ \ {c}], raised |-> FALSE]
    ELSE [active |-> active, raised |-> FALSE]

\* disconnect(game_id, websocket): the registry it leaves, and whether it raises
Disconnect(active, game_id, c) ==
    IF game_id \in DOMAIN active
    THEN LET rest == active[game_id] \ {c}
         IN [active |-> IF rest = {}
                        THEN [g \in DOMAIN active \ {game_id} |-> active[g]]
                        ELSE [active EXCEPT ![game_id] = rest],
             raised |-> FALSE]
    ELSE [active |-> active, raised |-> FALSE]

\* a broadcast that iterates over the connections of every game
BroadcastTargetsAll(active, game_id) ==
    UNION {active[g] : g \in DOMAIN active}

\* the copy broadcast iterates over
BroadcastTargets(active, game_id) ==
    IF game_id \in DOMAIN active THEN active[game_id] ELSE {}

\* connection.send_json(message) raises when the client end is gone
SendFails(d) == ~alive[d]

\* "await connection.send_json(message)" does not complete while the client
\* reads nothing: the loop has no timeout and starts no task per connection
SendBlocks(d) == d \in stalled

\* an except clause that logs, disconnects and raises again
BroadcastReraise(active, game_id, d) ==
    [active |-> Disconnect(active, game_id, d).active, raised |-> TRUE]

\* broadcast's "except Exception": log, then manager.disconnect
BroadcastExcept(active, game_id, d) == Disconnect(active, game_id, d)

NewWs ==
    [pc |-> "new", game_id |-> None, player_id |-> None,
     message |-> << >>, todo |-> {}, cur |-> 0, code |-> 0]

HttpUnchanged ==
    /\ UNCHANGED <<matches, nextUuid, req>>
    /\ resp' = NoResp

\* the handler's way out through "except Exception" and "finally", or through
\* "finally" alone (code 0): close(code), then manager.disconnect
Leave(c, game_id, code) ==
    LET d == Disconnect(active_connections, game_id, c)
    IN /\ active_connections' = d.active
       /\ ws' = [ws EXCEPT ![c] =
                    [NewWs EXCEPT !.pc = IF d.raised THEN "crashed" ELSE "closed",
                                  !.code = code]]
       /\ alive' = [alive EXCEPT ![c] = FALSE]
       /\ stalled' = stalled \ {c}

\* the participant test of the handshake
IsParticipant(game, player_id) == player_id \in {game.p1_id, game.p2_id}

\* ---- websocket_endpoint: the checks before manager.connect --------------
websocket_endpoint(c, game_id, player_id) ==
    /\ Budget
    /\ nevents' = nevents + 1
    /\ ws[c].pc = "new"
    /\ \A b \in Conns : b < c => ws[b].pc # "new"
    /\ LET got == SessionGet(game_id)
           game == got[1]
       IN IF got = << >> \/ ~game.is_active
          THEN Leave(c, game_id, 1008)
          ELSE IF ~IsParticipant(game, player_id)
          THEN Leave(c, game_id, 1008)
          ELSE /\ ws' = [ws EXCEPT ![c] = [NewWs EXCEPT !.pc = "checked",
                                !.game_id = game_id, !.player_id = player_id]]
               /\ UNCHANGED <<active_connections, alive, stalled>>
    /\ UNCHANGED inbox
    /\ HttpUnchanged

\* ---- manager.connect ----------------------------------------------------
\* accepted says whether websocket.accept() returned; it may raise only when
\* the client end is gone already
connect(c, accepted) ==
    /\ UNCHANGED nevents
    /\ ws[c].pc = "checked"
    /\ accepted \/ ~alive[c]
    /\ IF accepted
       THEN /\ active_connections' = Connect(active_connections, ws[c].game_id, c)
            /\ ws' = [ws EXCEPT ![c].pc = "open"]
            /\ UNCHANGED <<alive, stalled>>
       ELSE Leave(c, ws[c].game_id, 1008)
    /\ UNCHANGED inbox
    /\ HttpUnchanged

\* ---- the loop: receive_text, get_game_state, start of broadcast ---------
receive_text(c) ==
    /\ Budget
    /\ nevents' = nevents + 1
    /\ ws[c].pc = "open"
    /\ alive[c]
    /\ LET r == StateOf(ws[c].game_id)
       IN IF r.status # 200
          THEN Leave(c, ws[c].game_id, 1008)
          ELSE LET targets == BroadcastTargets(active_connections, ws[c].game_id)
               IN /\ ws' = [ws EXCEPT ![c].pc = IF targets = {} THEN "open" ELSE "bcast",
                                      ![c].message = IF targets = {} THEN << >> ELSE <<r.body>>,
                                      ![c].todo = targets]
                  /\ UNCHANGED <<active_connections, alive, stalled>>
    /\ UNCHANGED inbox
    /\ HttpUnchanged

\* ---- broadcast: one send_json of the loop over the copy -----------------
send_json(c, d) ==
    /\ UNCHANGED nevents
    /\ ws[c].pc = "bcast"
    /\ d \in ws[c].todo
    /\ ws[c].cur \in {0, d}
    /\ LET rest == ws[c].todo \ {d}
           back == [ws EXCEPT ![c].pc = IF rest = {} THEN "open" ELSE "bcast",
                              ![c].message = IF rest = {} THEN << >> ELSE @,
                              ![c].todo = rest,
                              ![c].cur = 0]
       IN IF SendBlocks(d)
          THEN \* the loop reaches d and waits in its send
               /\ ws[c].cur = 0
               /\ ws' = [ws EXCEPT ![c].cur = d]
               /\ UNCHANGED <<active_connections, alive, stalled, inbox>>
          ELSE IF ~SendFails(d)
          THEN /\ inbox' = [inbox EXCEPT ![d] = ws[c].message]
               /\ ws' = back
               /\ UNCHANGED <<active_connections, alive, stalled>>
          ELSE LET x == BroadcastExcept(active_connections, ws[c].game_id, d)
               IN /\ UNCHANGED inbox
                  /\ IF x.raised
                     THEN \* the error leaves broadcast and the handler's loop
                          LET y == Disconnect(x.active, ws[c].game_id, c)
                          IN /\ active_connections' = y.active
                             /\ ws' = [ws EXCEPT ![c] =
                                    [NewWs EXCEPT !.pc = IF y.raised THEN "crashed" ELSE "closed",
                                                  !.code = 1008]]
                             /\ alive' = [alive EXCEPT ![c] = FALSE]
                             /\ stalled' = stalled \ {c}
                     ELSE /\ active_connections' = x.active
                          /\ ws' = back
                          /\ UNCHANGED <<alive, stalled>>
    /\ HttpUnchanged

\* ---- the client end goes away -------------------------------------------
client_drop(c) ==
    /\ Budget
    /\ nevents' = nevents + 1
    /\ ws[c].pc \in {"checked", "open", "bcast"}
    /\ alive[c]
    /\ alive' = [alive EXCEPT ![c] = FALSE]
    /\ stalled' = stalled \ {c}
    /\ UNCHANGED <<active_connections, ws, inbox>>
    /\ HttpUnchanged

\* ---- the client stops reading, or reads again ---------------------------
\* the connection stays up, nothing is read and the send buffers are full
client_stall(c) ==
    /\ Budget
    /\ nevents' = nevents + 1
    /\ ws[c].pc \in {"open", "bcast"}
    /\ alive[c]
    /\ c \notin stalled
    /\ stalled' = stalled \cup {c}
    /\ UNCHANGED <<active_connections, ws, alive, inbox>>
    /\ HttpUnchanged

client_resume(c) ==
    /\ Budget
    /\ nevents' = nevents + 1
    /\ c \in stalled
    /\ stalled' = stalled \ {c}
    /\ UNCHANGED <<active_connections, ws, alive, inbox>>
    /\ HttpUnchanged

\* ---- receive_text raises WebSocketDisconnect ----------------------------
on_disconnect(c) ==
    /\ UNCHANGED nevents
    /\ ws[c].pc = "open"
    /\ ~alive[c]
    /\ LET x == Disconnect(active_connections, ws[c].game_id, c)
       IN IF x.raised
          THEN \* except Exception: close(1008); finally: disconnect again
               Leave(c, ws[c].game_id, 1008)
          ELSE LET y == Disconnect(x.active, ws[c].game_id, c)
               IN /\ active_connections' = y.active
                  /\ ws' = [ws EXCEPT ![c] =
                        [NewWs EXCEPT !.pc = IF y.raised THEN "crashed" ELSE "closed"]]
                  /\ UNCHANGED <<alive, stalled>>
    /\ UNCHANGED inbox
    /\ HttpUnchanged

\* ---- receive_text raises another exception ------------------------------
\* on a frame that is not text from a live client, or on a dead connection
on_error(c) ==
    /\ ws[c].pc = "open"
    /\ IF alive[c]
       THEN Budget /\ nevents' = nevents + 1
       ELSE UNCHANGED nevents
    /\ Leave(c, ws[c].game_id, 1008)
    /\ UNCHANGED inbox
    /\ HttpUnchanged

Init ==
    /\ matches = << >>
    /\ nextUuid = 1
    /\ req = EmptyBag
    /\ resp = NoResp
    /\ nevents = 0
    /\ active_connections = << >>
    /\ ws = [c \in Conns |-> NewWs]
    /\ alive = [c \in Conns |-> TRUE]
    /\ stalled = {}
    /\ inbox = [c \in Conns |-> << >>]

Next ==
    \/ \E n \in Names : create_game(n)
    \/ \E g \in GameInputs, n \in Names : join_game(g, n)
    \/ \E g \in GameInputs : \E p \in PlayersFor(g) : set_ready(g, p)
    \/ \E g \in GameInputs : \E p \in PlayersFor(g), m \in MoveInputs :
            submit_move(g, p, m)
    \/ \E g \in GameInputs : get_game_state(g)
    \/ \E r \in BagToSet(req) : SessionCommit(r)
    \/ \E c \in Conns, g \in GameInputs : \E p \in PlayersFor(g) : websocket_endpoint(c, g, p)
    \/ \E c \in Conns, accepted \in BOOLEAN : connect(c, accepted)
    \/ \E c \in Conns : receive_text(c)
    \/ \E c \in Conns, d \in Conns : send_json(c, d)
    \/ \E c \in Conns : client_drop(c)
    \/ \E c \in Conns : client_stall(c)
    \/ \E c \in Conns : client_resume(c)
    \/ \E c \in Conns : on_disconnect(c)
    \/ \E c \in Conns : on_error(c)

Spec == Init /\ [][Next]_vars

\* The server's own steps are taken when they can be: a session that reached
\* its return commits, an accepted handshake registers, a started broadcast
\* sends on, a dead connection's handler wakes up.  Client events are not fair.
ServerStep ==
    \/ \E r \in BagToSet(req) : SessionCommit(r)
    \/ \E c \in Conns : connect(c, TRUE)
    \/ \E c \in Conns, d \in Conns : send_json(c, d)
    \/ \E c \in Conns : on_disconnect(c)

FairSpec == Spec /\ WF_vars(ServerStep)

\* ---- properties ---------------------------------------------------------
ValidMoves == {"rock", "paper", "scissors"}

Participants(game) == {game.p1_id, game.p2_id} \ {None}

\* the sockets registered for a game
Registered(active, game_id) ==
    IF game_id \in DOMAIN active THEN active[game_id] ELSE {}

\* C1: a join_match on a match whose player_b slot is already occupied (a join
\* has succeeded on it before) never succeeds, in any interleaving of the
\* joins' reads and writes: at most one join of a match returns a player_b id.
C1_JoinSucceedsOnce ==
    [][(resp'.op = "join" /\ resp'.status = 200)
          => matches[resp'.game_id].p2_id = None]_vars

\* Judge of section 4.1: decide(move_a, move_b)
Decide(move_a, move_b) ==
    IF move_a = move_b THEN "draw"
    ELSE IF <<move_a, move_b>> \in {<<"rock", "scissors">>, <<"scissors", "paper">>,
                                     <<"paper", "rock">>}
    THEN "a_wins"
    ELSE "b_wins"

\* the winner the session manager derives from the Judge's outcome
WinnerOf(game) ==
    LET outcome == Decide(game.p1_move, game.p2_move)
    IN IF outcome = "a_wins" THEN game.p1_id
       ELSE IF outcome = "b_wins" THEN game.p2_id
       ELSE "draw"

\* C2: once both move slots of a match hold a move, the state returned by
\* submit_move and by get_state carries the winner the Judge decides.
C2_WinnerReturned ==
    (/\ resp.status = 200
     /\ resp.op \in {"move", "state"}
     /\ matches[resp.game_id].p1_move \in ValidMoves
     /\ matches[resp.game_id].p2_move \in ValidMoves)
    => (/\ "winner" \in DOMAIN resp.body
        /\ resp.body["winner"] = WinnerOf(matches[resp.game_id]))

\* C3: submit_move and set_ready on an existing match with a player id that is
\* neither player_a.id nor player_b.id fail with forbidden (403) and leave
\* the stored matches as they were.
C3_NonParticipantForbidden ==
    [][(/\ resp'.op \in {"move", "ready"}
        /\ resp'.game_id \in DOMAIN matches
        /\ resp'.player_id \notin Participants(matches[resp'.game_id]))
          => (resp'.status = 403 /\ matches' = matches)]_vars

\* C4: join, set_ready, submit_move and get_state on an unknown match id fail
\* with a 4xx not-found status that is neither the conflict status (400) nor
\* the forbidden status (403) nor a 5xx, and no match is created or changed.
C4_UnknownMatchNotFound ==
    [][(/\ resp'.op \in {"join", "ready", "move", "state"}
        /\ resp'.game_id \notin DOMAIN matches)
          => (/\ resp'.status \in (400..499) \ {400, 403}
              /\ matches' = matches)]_vars

\* C5: every stored move is absent or one of rock, paper, scissors.
C5_StoredMovesValid ==
    \A g \in DOMAIN matches :
        /\ matches[g].p1_move \in ValidMoves \cup {None}
        /\ matches[g].p2_move \in ValidMoves \cup {None}
\* a join, set_ready or submit_move on the game of socket c has just committed,
\* and c is registered for that game with its client connected
MutationSeenBy(c) ==
    /\ resp.status = 200
    /\ resp.op \in {"join", "ready", "move"}
    /\ c \in Registered(active_connections, resp.game_id)
    /\ alive[c]

\* the client of c holds the stored state of its game, or c is gone
PushedTo(c) ==
    \/ ~alive[c]
    \/ ws[c].pc \notin {"open", "bcast"}
    \/ inbox[c] = <<game_state(matches[ws[c].game_id])>>

\* C6: every committed join_match, set_ready or submit_move on match M is
\* eventually followed by a push of M's stored state to each connection
\* registered for M, without the subscriber sending anything.
C6_MutationIsPushed ==
    \A c \in Conns : [](MutationSeenBy(c) => <>PushedTo(c))
\* socket c is in the registry set of some game
InRegistry(active, c) == \E g \in DOMAIN active : c \in active[g]

\* C7: a connection is added to the registry set of match M only if, at that
\* moment, M exists, is active and the connecting party's identifier is
\* player_a.id or player_b.id of M; a handshake that is refused closes the
\* connection with the policy-violation status (1008) and adds it nowhere.
C7_RegisteredOnlyParticipant ==
    [][\A c \in Conns :
        /\ \A g \in DOMAIN active_connections' :
             (c \in active_connections'[g] /\ c \notin Registered(active_connections, g))
                => (/\ g \in DOMAIN matches
                    /\ matches[g].is_active
                    /\ ws[c].game_id = g
                    /\ ws[c].player_id \in Participants(matches[g]))
        /\ (ws[c].pc \in {"new", "checked"} /\ ws'[c].pc \notin {"new", "checked", "open"})
                => (/\ ws'[c].pc = "closed"
                    /\ ws'[c].code = 1008
                    /\ ~InRegistry(active_connections', c))]_vars
\* C8: in a broadcast, each send handles one connection of the copy taken at
\* the start: a live one receives the snapshot, a failing one is removed from
\* the registry, and either way the broadcast goes on to the remaining
\* connections and returns to its caller's loop without raising.
C8_BroadcastBestEffort ==
    [][\A c \in Conns :
        (ws[c].pc = "bcast" /\ ws'[c] # ws[c] /\ ws'[c].cur = 0)
          => \E d \in ws[c].todo :
                /\ ws'[c].todo = ws[c].todo \ {d}
                /\ ws'[c].pc = IF ws'[c].todo = {} THEN "open" ELSE "bcast"
                /\ ws'[c].pc = "bcast" => ws'[c].message = ws[c].message
                /\ IF alive[d]
                   THEN /\ inbox'[d] = ws[c].message
                        /\ active_connections' = active_connections
                   ELSE /\ ~InRegistry(active_connections', d)
                        /\ \A g \in DOMAIN active_connections :
                              Registered(active_connections', g)
                                 = active_connections[g] \ {d}]_vars

\* a broadcast met a dead connection d, dropped it from the registry and still
\* delivered to c, whose handler is back in its loop
C8_Witness ==
    \E c \in Conns, d \in Conns :
        /\ c # d
        /\ ws[c].pc = "open" /\ ws[d].pc = "open"
        /\ ws[c].game_id = ws[d].game_id
        /\ ~alive[d]
        /\ ~InRegistry(active_connections, d)
        /\ c \in Registered(active_connections, ws[c].game_id)
        /\ inbox[c] # << >>

\* the caller's ready flag in a row
ReadyFlag(game, player_id) ==
    IF player_id = game.p1_id THEN game.p1_ready ELSE game.p2_ready

\* this step is the commit of the session of request r
Commits(r) == BagIn(r, req) /\ req' = req (-) SetToBag({r})

\* C9: set_ready by a participant never fails, and when the participant's flag
\* was already true the call leaves the stored matches unchanged and returns,
\* with status 200, the snapshot of the match as it read it.
C9_SetReadyIdempotent ==
    [][/\ \A r \in BagToSet(req) :
            (r.op = "ready" /\ Commits(r) /\ ReadyFlag(r.loaded, r.player_id))
               => (/\ matches' = matches
                   /\ resp'.op = "ready" /\ resp'.status = 200
                   /\ resp'.body = game_state(r.loaded))
       /\ (resp'.op = "ready" /\ resp'.status # 200)
               => (\/ resp'.game_id \notin DOMAIN matches
                   \/ resp'.player_id \notin Participants(matches[resp'.game_id]))]_vars

\* a set_ready of a participant whose flag is already true is in its session
C9_Witness ==
    \E r \in BagToSet(req) : r.op = "ready" /\ ReadyFlag(r.loaded, r.player_id)

\* C10: a handler that ends unregisters its connection (twice after a client
\* disconnect, and also when the connection was never registered or the game
\* id has no registry entry) without raising, and every other connection of
\* every game stays registered exactly as it was.
C10_UnregisterIdempotent ==
    [][\A c \in Conns :
        /\ ws'[c].pc # "crashed"
        /\ (ws[c].pc # "closed" /\ ws'[c].pc = "closed")
              => \A g \in DOMAIN active_connections \cup DOMAIN active_connections' :
                    Registered(active_connections', g)
                       = Registered(active_connections, g) \ {c}]_vars

\* c was unregistered twice after its client went away; d is still registered
C10_Witness ==
    \E c \in Conns, d \in Conns :
        /\ c # d
        /\ ws[c].pc = "closed" /\ ws[c].code = 0
        /\ d \in Registered(active_connections, ws[d].game_id)
\* C11: once player_b's id and name are set they keep their values: no step
\* changes p2_id or p2_name of a match whose p2_id is set.
C11_PlayerBFixed ==
    [][\A g \in DOMAIN matches :
          matches[g].p2_id # None
             => (/\ matches'[g].p2_id = matches[g].p2_id
                 /\ matches'[g].p2_name = matches[g].p2_name)]_vars
\* the slot ("A" or "B") a request of set_ready or submit_move writes
SlotOf(r) == IF r.player_id = r.loaded.p1_id THEN "A" ELSE "B"

\* the ready flag and the move of a slot in a row
SlotState(game, slot) ==
    IF slot = "A" THEN <<game.p1_ready, game.p1_move>>
                  ELSE <<game.p2_ready, game.p2_move>>

OtherSlot(slot) == IF slot = "A" THEN "B" ELSE "A"

\* C12: the commit of a successful set_ready or submit_move stores the caller's
\* own mutation (the flag is true, a move that differs from the one read is the
\* stored move) and leaves the other player's stored ready flag and move
\* exactly as they are in the table, whatever was committed since it read.
C12_NoLostUpdate ==
    [][\A r \in BagToSet(req) :
          (r.op \in {"ready", "move"} /\ Commits(r))
             => LET g == r.game.id
                    own == SlotState(matches'[g], SlotOf(r))
                IN  /\ resp'.status = 200
                    /\ r.op = "ready" => own[1] = TRUE
                    /\ (r.op = "move" /\ r.arg # SlotState(r.loaded, SlotOf(r))[2])
                          => own[2] = r.arg
                    /\ SlotState(matches'[g], OtherSlot(SlotOf(r)))
                          = SlotState(matches[g], OtherSlot(SlotOf(r)))]_vars

\* player_a's request has just committed and returned a snapshot read before
\* player_b's move was committed; player_b's move is in the table
C12_Witness ==
    /\ resp.status = 200 /\ resp.op \in {"ready", "move"}
    /\ resp.game_id \in DOMAIN matches
    /\ resp.player_id = matches[resp.game_id].p1_id
    /\ matches[resp.game_id].p2_move # None
    /\ resp.body.moves.B # matches[resp.game_id].p2_move
\* C13: a broadcast that has started returns to its caller: the handler that
\* runs it leaves the sending loop, whatever one of the connections does.
C13_BroadcastReturns ==
    \A c \in Conns : [](ws[c].pc = "bcast" => <>(ws[c].pc # "bcast"))
\* C14: a connection whose handler has returned (after a client disconnect, an
\* error while receiving or broadcasting, or a refused handshake) is in no
\* connection set of the registry.
C14_EndedNotRegistered ==
    \A c \in Conns :
        ws[c].pc \in {"closed", "crashed"} => ~InRegistry(active_connections, c)

\* a handler that was in its receive loop has ended on its client's disconnect
\* while another connection is still registered
C14_Witness ==
    \E c \in Conns :
        /\ ws[c].pc = "closed" /\ ws[c].code = 0
        /\ active_connections # << >>

\* C15: no game id of the registry is mapped to an empty connection set.
C15_NoEmptyEntry ==
    \A g \in DOMAIN active_connections : active_connections[g] # {}

\* a broadcast removed the last connection of a game on a failed send: the
\* handler is back in its loop and its game id has no entry
C15_Witness ==
    \E c \in Conns :
        /\ ws[c].pc = "open"
        /\ ws[c].game_id \notin DOMAIN active_connections

\* C16: player_b's ready flag and move are set only in a match that player_b
\* has joined.
C16_PlayerBStateNeedsJoin ==
    \A g \in DOMAIN matches :
        matches[g].p2_id = None
            => (matches[g].p2_ready = FALSE /\ matches[g].p2_move = None)

\* player_a has marked ready and submitted a move in a match nobody has joined
C16_Witness ==
    \E g \in DOMAIN matches :
        /\ matches[g].p2_id = None
        /\ matches[g].p1_ready
        /\ matches[g].p1_move # None
\* C17: the stored state of a match only moves forward: the match stays stored
\* with its id and player_a's id, a ready flag that is true stays true, a move
\* slot that holds a move keeps holding one, and player_b, once present,
\* stays present.
C17_Monotonic ==
    [][\A g \in DOMAIN matches :
          /\ g \in DOMAIN matches'
          /\ matches'[g].id = matches[g].id
          /\ matches'[g].p1_id = matches[g].p1_id
          /\ matches[g].p1_ready => matches'[g].p1_ready
          /\ matches[g].p2_ready => matches'[g].p2_ready
          /\ matches[g].p1_move # None => matches'[g].p1_move # None
          /\ matches[g].p2_move # None => matches'[g].p2_move # None
          /\ matches[g].p2_id # None => matches'[g].p2_id # None]_vars

\* a set_ready has just committed in a match that player_b had joined and
\* whose caller's move slot held a move
C17_Witness ==
    /\ resp.op = "ready" /\ resp.status = 200
    /\ resp.body.players.B # << >>
    /\ \/ resp.player_id = resp.body.players.A.id /\ resp.body.moves.A # None
       \/ resp.player_id # resp.body.players.A.id /\ resp.body.moves.B # None

\* the game of the snapshot a connection received: player_a's id names it
SnapshotOf(d) == inbox[d][1].players.A.id

\* C18: a connection whose handler is running has received snapshots of the
\* game it is registered for only.
C18_BroadcastScoped ==
    \A d \in Conns :
        (inbox[d] # << >> /\ ws[d].pc \in {"open", "bcast"})
            => SnapshotOf(d) = matches[ws[d].game_id].p1_id

\* connections of two games are registered, a broadcast for the game of c has
\* ended and delivered to c, and d has received nothing
C18_Witness ==
    \E c, d \in Conns :
        /\ ws[c].pc = "open" /\ ws[d].pc = "open"
        /\ ws[c].game_id # ws[d].game_id
        /\ InRegistry(active_connections, c) /\ InRegistry(active_connections, d)
        /\ alive[d] /\ d \notin stalled
        /\ inbox[c] # << >> /\ inbox[d] = << >>

\* C19: the broadcast a text message starts reaches every connection of its
\* copy: a connection that is up and reading while it waits in the copy is
\* eventually sent the snapshot (or stops being up and reading).
C19_TextReachesAll ==
    \A c, d \in Conns :
        []((ws[c].pc = "bcast" /\ d \in ws[c].todo /\ alive[d] /\ d \notin stalled)
              => <>(d \notin ws[c].todo \/ ~alive[d] \/ d \in stalled))
====
